---- MODULE Spec2Model ----
(***************************************************************************)
(* Model of the image-variant generator script (getimages): extraction of  *)
(* .png references from a stylesheet, the palette resolver, the per-pixel  *)
(* recolor scan, and the main pipeline with its error handling.            *)
(*                                                                         *)
(* Strings are sequences of one-character strings, so that the script's    *)
(* regular expressions, split() and slice() are computed character by      *)
(* character.  A Bitmap is [width, height, data] with data the flat RGBA   *)
(* byte buffer, indexed as Jimp's scan() indexes it.                       *)
(***************************************************************************)
EXTENDS Integers, Sequences, FiniteSets, TLC

VARIABLES
    pc,          \* position of main(): "start", "extract", "colors", "mkdir",
                 \* "resolve", "fetch", "save", "done" (returned), "exit" (process.exit)
    exitCode,    \* -1 while running, then the process exit code
    fatal,       \* what reached process.exit(1): "none", "css", "color", "mkdir", "resolve"
    src,         \* cssSource and what it holds: [source |-> URL or path, text |-> stylesheet]
    opts,        \* [color, filter, baseUrl]: the parsed command line
    css,         \* the text fetchCss returned
    cssRequested,\* the stylesheet retrieval issued so far: "none", "get" or "read"
    paths,       \* the surviving References, in order
    colors,      \* the palette: a sequence of [name, rgb], in Object.entries order
    idx,         \* index (1-based) of the Reference of the current loop iteration
    cidx,        \* index (1-based) of the palette entry of the inner loop
    img,         \* the Bitmap held in `img` for the current Reference
    decoded,     \* per Reference index: the Bitmap as fetchImage returned it
    fetches,     \* the sequence of References for which an image GET was issued
    status,      \* per Reference index: "pending", "skipped", "fetchfail", "fetched", "expanded"
    attempts,    \* per <<Reference index, palette index>>: "ok" or "failed"
    outputs,     \* the files written: <<Reference index, palette index>> -> [path, image]
    call         \* a single call of a pure function: [fn, arg, ret, done]

vars == <<pc, exitCode, fatal, src, opts, css, cssRequested, paths, colors, idx, cidx,
          img, decoded, fetches, status, attempts, outputs, call>>

pipeVars == <<pc, exitCode, fatal, src, opts, css, cssRequested, paths, colors, idx, cidx,
              img, decoded, fetches, status, attempts, outputs>>

(***************************************************************************)
(* Bounds of the model.                                                    *)
(***************************************************************************)
MaxPixels == 2
MaxDecls == 2
MaxChunks == 5
MaxArgs == 2

(***************************************************************************)
(* Strings.                                                                *)
(***************************************************************************)
RECURSIVE Flatten(_)
Flatten(ss) == IF ss = <<>> THEN <<>> ELSE Head(ss) \o Flatten(Tail(ss))

Slice(s, from, to) == SubSeq(s, from + 1, IF to > Len(s) THEN Len(s) ELSE to)

ToLower(c) ==
    CASE c = "U" -> "u" [] c = "R" -> "r" [] c = "L" -> "l"
      [] c = "P" -> "p" [] c = "N" -> "n" [] c = "G" -> "g"
      [] OTHER -> c

StartsWithAt(s, p, lit) ==
    /\ p + Len(lit) - 1 <= Len(s)
    /\ \A k \in 1..Len(lit) : s[p + k - 1] = lit[k]

StartsWithAtI(s, p, lit) ==
    /\ p + Len(lit) - 1 <= Len(s)
    /\ \A k \in 1..Len(lit) : ToLower(s[p + k - 1]) = lit[k]

IsSpace(c) == c \in {" ", "\n", "\t"}

IsQuote(c) == c \in {"'", "\""}

\* The parts of s.split(sep) for a one-character separator.
RECURSIVE SplitFrom(_, _, _, _)
SplitFrom(s, sep, p, cur) ==
    IF p > Len(s) THEN <<cur>>
    ELSE IF s[p] = sep THEN <<cur>> \o SplitFrom(s, sep, p + 1, <<>>)
    ELSE SplitFrom(s, sep, p + 1, Append(cur, s[p]))

Split(s, sep) == SplitFrom(s, sep, 1, <<>>)

(***************************************************************************)
(* Bitmaps and the recolor scan of processAndSave.                         *)
(***************************************************************************)
Bitmap(w, h, d) == [width |-> w, height |-> h, data |-> d]

Clone(image) == Bitmap(image.width, image.height, image.data)

\* The scan callback at byte offset i (0-based) of the buffer d.
ScanPixelNoWhite(d, i, rgb) ==
    LET r == d[i + 1]
        g == d[i + 2]
        b == d[i + 3]
        a == d[i + 4]
    IN  IF a # 0 /\ r = 0 /\ g = 0 /\ b = 0
        THEN [d EXCEPT ![i + 1] = rgb[1], ![i + 2] = rgb[2], ![i + 3] = rgb[3]]
        ELSE d

ScanPixelAnyAlpha(d, i, rgb) ==
    LET r == d[i + 1]
        g == d[i + 2]
        b == d[i + 3]
    IN  IF r = 255 /\ g = 255 /\ b = 255
        THEN [d EXCEPT ![i + 4] = 0]
        ELSE IF r = 0 /\ g = 0 /\ b = 0
        THEN [d EXCEPT ![i + 1] = rgb[1], ![i + 2] = rgb[2], ![i + 3] = rgb[3]]
        ELSE d

ScanPixel(d, i, rgb) ==
    LET r == d[i + 1]
        g == d[i + 2]
        b == d[i + 3]
        a == d[i + 4]
    IN  IF a # 0 /\ r = 255 /\ g = 255 /\ b = 255
        THEN [d EXCEPT ![i + 4] = 0]
        ELSE IF a # 0 /\ r = 0 /\ g = 0 /\ b = 0
        THEN [d EXCEPT ![i + 1] = rgb[1], ![i + 2] = rgb[2], ![i + 3] = rgb[3]]
        ELSE d

\* scan(0, 0, width, height, f): f at every (x, y), row by row, idx = (width*y + x)*4.
RECURSIVE ScanFrom(_, _, _, _)
ScanFrom(d, w, n, rgb) ==
    IF n = 0 THEN d
    ELSE LET k == n - 1
             y == k \div w
             x == k % w
         IN  ScanPixel(ScanFrom(d, w, k, rgb), (w * y + x) * 4, rgb)

Scan(image, rgb) ==
    Bitmap(image.width, image.height,
           ScanFrom(image.data, image.width, image.width * image.height, rgb))

\* The first two statements of processAndSave: what becomes of the Bitmap passed in
\* (source) and the Bitmap that is then written (variant).
RecolorInPlace(image, rgb) ==
    [source |-> Scan(image, rgb), variant |-> Scan(image, rgb)]

Recolor(image, rgb) ==
    LET clone == Clone(image)
    IN  [source |-> image, variant |-> Scan(clone, rgb)]

(***************************************************************************)
(* findPngUrls.                                                            *)
(***************************************************************************)
UrlOpen == <<"u", "r", "l", "(">>

DotPng == <<".", "p", "n", "g">>

\* First position q >= p where s has "*/", or 0.
RECURSIVE FindCommentEnd(_, _)
FindCommentEnd(s, p) ==
    IF p + 1 > Len(s) THEN 0
    ELSE IF s[p] = "*" /\ s[p + 1] = "/" THEN p
    ELSE FindCommentEnd(s, p + 1)

\* css.replace(/\/\*[\s\S]*?\*\//g, '')
RECURSIVE RemoveCommentsFrom(_, _)
RemoveCommentsFrom(s, p) ==
    IF p > Len(s) THEN <<>>
    ELSE LET e == IF StartsWithAt(s, p, <<"/", "*">>) THEN FindCommentEnd(s, p + 2) ELSE 0
         IN  IF e # 0 THEN RemoveCommentsFrom(s, e + 2)
             ELSE <<s[p]>> \o RemoveCommentsFrom(s, p + 1)

RemoveComments(s) == RemoveCommentsFrom(s, 1)

\* .replace(/\s+/g, ' ')
RECURSIVE CollapseFrom(_, _)
CollapseFrom(s, p) ==
    IF p > Len(s) THEN <<>>
    ELSE IF IsSpace(s[p])
         THEN IF p > 1 /\ IsSpace(s[p - 1]) THEN CollapseFrom(s, p + 1)
              ELSE <<" ">> \o CollapseFrom(s, p + 1)
    ELSE <<s[p]>> \o CollapseFrom(s, p + 1)

CollapseWhitespace(s) == CollapseFrom(s, 1)

\* Length of the longest run of characters of [^'")] starting at q.
RECURSIVE RunLen(_, _)
RunLen(s, q) ==
    IF q > Len(s) \/ IsQuote(s[q]) \/ s[q] = ")" THEN 0
    ELSE 1 + RunLen(s, q + 1)

RECURSIVE SkipSpaces(_, _)
SkipSpaces(s, p) == IF p <= Len(s) /\ IsSpace(s[p]) THEN SkipSpaces(s, p + 1) ELSE p

\* ['"]?\s*\) at position p: the position after the ")", or 0.
MatchTail(s, p) ==
    LET p1 == IF p <= Len(s) /\ IsQuote(s[p]) THEN p + 1 ELSE p
        p2 == SkipSpaces(s, p1)
    IN  IF p2 <= Len(s) /\ s[p2] = ")" THEN p2 + 1 ELSE 0

\* ([^'")]+\.png) then the tail, the group starting at q and at most k long: the
\* greedy + gives characters back one at a time until the rest matches.
RECURSIVE MatchGroup(_, _, _)
MatchGroup(s, q, k) ==
    IF k < Len(DotPng) + 1 THEN [end |-> 0, group |-> <<>>]
    ELSE IF StartsWithAtI(s, q + k - Len(DotPng), DotPng) /\ MatchTail(s, q + k) # 0
         THEN [end |-> MatchTail(s, q + k), group |-> SubSeq(s, q, q + k - 1)]
    ELSE MatchGroup(s, q, k - 1)

\* /url\(['"]?([^'")]+\.png)['"]?\s*\)/i anchored at p.
MatchAt(s, p) ==
    IF ~StartsWithAtI(s, p, UrlOpen) THEN [end |-> 0, group |-> <<>>]
    ELSE LET q0 == p + Len(UrlOpen)
             q  == IF q0 <= Len(s) /\ IsQuote(s[q0]) THEN q0 + 1 ELSE q0
         IN  MatchGroup(s, q, RunLen(s, q))

\* re.exec from lastIndex p: the leftmost match at or after p.
RECURSIVE Exec(_, _)
Exec(s, p) ==
    IF p > Len(s) THEN [end |-> 0, group |-> <<>>]
    ELSE IF MatchAt(s, p).end # 0 THEN MatchAt(s, p)
    ELSE Exec(s, p + 1)

StripQuotes(s) ==
    LET a == IF s # <<>> /\ IsQuote(Head(s)) THEN Tail(s) ELSE s
    IN  IF a # <<>> /\ IsQuote(a[Len(a)]) THEN SubSeq(a, 1, Len(a) - 1) ELSE a

\* match[1].split('?')[0].split('#')[0].replace(/^['"]|['"]$/g, '')
CleanUrl(group) == StripQuotes(Split(Split(group, "?")[1], "#")[1])

Includes(urls, u) == \E k \in 1..Len(urls) : urls[k] = u

PushAlways(urls, u) == Append(urls, u)

PushIfNew(urls, u) == IF ~Includes(urls, u) THEN Append(urls, u) ELSE urls

RECURSIVE ExecLoop(_, _, _)
ExecLoop(s, p, urls) ==
    LET m == Exec(s, p)
    IN  IF m.end = 0 THEN urls
        ELSE ExecLoop(s, m.end, PushIfNew(urls, CleanUrl(m.group)))

FindPngUrls(text) == ExecLoop(CollapseWhitespace(RemoveComments(text)), 1, <<>>)

(***************************************************************************)
(* parseColors.                                                            *)
(***************************************************************************)
Undefined == <<"undefined">>

HexDigits == {"0", "1", "2", "3", "4", "5", "6", "7", "8", "9",
              "a", "b", "c", "d", "e", "f", "A", "B", "C", "D", "E", "F"}

HexVal(c) ==
    CASE c = "0" -> 0 [] c = "1" -> 1 [] c = "2" -> 2 [] c = "3" -> 3 [] c = "4" -> 4
      [] c = "5" -> 5 [] c = "6" -> 6 [] c = "7" -> 7 [] c = "8" -> 8 [] c = "9" -> 9
      [] c \in {"a", "A"} -> 10 [] c \in {"b", "B"} -> 11 [] c \in {"c", "C"} -> 12
      [] c \in {"d", "D"} -> 13 [] c \in {"e", "E"} -> 14 [] c \in {"f", "F"} -> 15

\* /^#?[0-9a-fA-F]{6}$/.test(hex)
HexOk(hex) ==
    LET h == IF hex # <<>> /\ Head(hex) = "#" THEN Tail(hex) ELSE hex
    IN  Len(h) = 6 /\ \A k \in 1..6 : h[k] \in HexDigits

\* parseInt(two hexadecimal digits, 16)
ParseInt16(pair) == 16 * HexVal(pair[1]) + HexVal(pair[2])

ToRgb(hex) ==
    LET h == IF Head(hex) = "#" THEN Tail(hex) ELSE hex
    IN  <<ParseInt16(Slice(h, 0, 2)), ParseInt16(Slice(h, 2, 4)), ParseInt16(Slice(h, 4, 6))>>

Green == <<"g", "r", "e", "e", "n">>

Yellow == <<"y", "e", "l", "l", "o", "w">>

Red == <<"r", "e", "d">>

Blue == <<"b", "l", "u", "e">>

Defaults ==
    << [name |-> Green,  rgb |-> <<0, 128, 0>>],
       [name |-> Yellow, rgb |-> <<255, 255, 0>>],
       [name |-> Red,    rgb |-> <<255, 0, 0>>],
       [name |-> Blue,   rgb |-> <<0, 0, 255>>] >>

\* const [name, hex] = entry.split(':')
EntryName(entry) == Split(entry, ":")[1]

EntryHex(entry) == IF Len(Split(entry, ":")) >= 2 THEN Split(entry, ":")[2] ELSE Undefined

EntryOk(entry) == EntryName(entry) # <<>> /\ HexOk(EntryHex(entry))

\* colors[name] = rgb on an object whose own properties are, in order, `entries`.
RECURSIVE SetKey(_, _, _)
SetKey(entries, name, rgb) ==
    IF entries = <<>> THEN << [name |-> name, rgb |-> rgb] >>
    ELSE IF Head(entries).name = name THEN << [name |-> name, rgb |-> rgb] >> \o Tail(entries)
    ELSE << Head(entries) >> \o SetKey(Tail(entries), name, rgb)

\* The for loop of parseColors from entry k on: the palette, or the entry that made
\* the process exit.
RECURSIVE ParseLoop(_, _, _)
ParseLoop(colorArgs, k, acc) ==
    IF k > Len(colorArgs) THEN [ok |-> TRUE, entries |-> acc]
    ELSE IF ~EntryOk(colorArgs[k]) THEN [ok |-> FALSE, entries |-> <<>>]
    ELSE ParseLoop(colorArgs, k + 1,
                   SetKey(acc, EntryName(colorArgs[k]), ToRgb(EntryHex(colorArgs[k]))))

ParseColors(colorArgs) ==
    IF Len(colorArgs) = 0 THEN [ok |-> TRUE, entries |-> Defaults]
    ELSE ParseLoop(colorArgs, 1, <<>>)

(***************************************************************************)
(* The helpers of main().                                                  *)
(***************************************************************************)
Http == <<"h", "t", "t", "p", ":", "/", "/">>

Https == <<"h", "t", "t", "p", "s", ":", "/", "/">>

\* /^https?:\/\//.test(s)
IsHttpUrl(s) == StartsWithAt(s, 1, Http) \/ StartsWithAt(s, 1, Https)

\* content.trim() is empty
IsBlank(s) == \A k \in 1..Len(s) : IsSpace(s[k])

\* minimatch(p, pat) for patterns of literal characters and "*", which matches any
\* run of characters other than "/".
RECURSIVE Minimatch(_, _)
Minimatch(p, pat) ==
    IF pat = <<>> THEN p = <<>>
    ELSE IF Head(pat) = "*"
         THEN \/ Minimatch(p, Tail(pat))
              \/ p # <<>> /\ Head(p) # "/" /\ Minimatch(Tail(p), pat)
    ELSE p # <<>> /\ Head(p) = Head(pat) /\ Minimatch(Tail(p), Tail(pat))

\* paths.filter(p => !opts.filter.some(pat => minimatch(p, pat)))
ApplyFilter(ps, filter) ==
    IF Len(filter) = 0 THEN ps
    ELSE SelectSeq(ps, LAMBDA p : ~\E k \in 1..Len(filter) : Minimatch(p, filter[k]))

\* Whether new URL(rel, base) returns: it throws a TypeError when the base does
\* not parse as an absolute URL.  Of the bases drawn here the http(s) ones parse and
\* the bare host name does not.
UrlParses(rel, base) == IsHttpUrl(base)

\* Lines 172-179: how the loop obtains the URL of a Reference.
ResolveKind(rel, baseUrl) ==
    IF IsHttpUrl(rel) THEN "absolute"
    ELSE IF baseUrl # Undefined
         THEN IF UrlParses(rel, baseUrl) THEN "resolved" ELSE "throws"
    ELSE "skip"

\* rel.replace(/^\/+/, '')
RECURSIVE StripLeadingSlashes(_)
StripLeadingSlashes(rel) ==
    IF rel # <<>> /\ Head(rel) = "/" THEN StripLeadingSlashes(Tail(rel)) ELSE rel

\* path.join(opts.output, name, cleanRel), as its components.
OutFile(output, name, rel) == <<output, name, StripLeadingSlashes(rel)>>

\* The default of --output.
OutputRoot == "output_images"

\* Where control goes once the iteration for Reference i is over.
NextReference(ps, i) ==
    IF i + 1 > Len(ps)
    THEN [pc |-> "done", idx |-> i + 1, exitCode |-> 0, fatal |-> "none"]
    ELSE [pc |-> "resolve", idx |-> i + 1, exitCode |-> -1, fatal |-> "none"]

\* Where control goes once palette entry j of Reference i has been handled.
NextEntry(ps, cs, i, j) ==
    IF j + 1 > Len(cs)
    THEN [pc |-> NextReference(ps, i).pc, idx |-> i + 1, cidx |-> 1,
          exitCode |-> NextReference(ps, i).exitCode, fatal |-> "none"]
    ELSE [pc |-> "save", idx |-> i, cidx |-> j + 1, exitCode |-> -1, fatal |-> "none"]

\* The outer catch of main(): console.error(err); process.exit(1).
TopLevelCatch(cause, i, j) ==
    [pc |-> "exit", idx |-> i, cidx |-> j, exitCode |-> 1, fatal |-> cause]

\* An error thrown by processAndSave for entry j of Reference i.
RethrowSaveError(ps, cs, i, j) == TopLevelCatch("save", i, j)

\* The catch of lines 199-201: the error is logged, the for loop goes on.
CatchSaveError(ps, cs, i, j) == NextEntry(ps, cs, i, j)

\* The catch of lines 187-190: the error is logged, `continue`.
CatchFetchError(ps, i) == NextReference(ps, i)

(***************************************************************************)
(* The inputs of a run.                                                    *)
(***************************************************************************)
APng == <<"a">> \o DotPng

ItemPlain == UrlOpen \o APng \o <<")">>

ItemQuotedQuery == UrlOpen \o <<"'">> \o APng \o <<"?">> \o DotPng \o <<"'", ")">>

ItemSlash == UrlOpen \o <<"/", "b">> \o DotPng \o <<")">>

ItemAbsolute == UrlOpen \o Http \o <<"h", "/", "c">> \o DotPng \o <<")">>

ItemComment == <<"/", "*">> \o UrlOpen \o <<"d">> \o DotPng \o <<")", "*", "/">>

UrlItems == {ItemPlain, ItemQuotedQuery, ItemSlash, ItemAbsolute, ItemComment}

DeclLists(max) == UNION { [1..n -> UrlItems] : n \in 0..max }

CssSources == { Https \o <<"x", "/", "s">>, <<"s">> }

ArgAcc == <<"a", ":", "3", "3", "6", "6", "9", "9">>

ArgWhite == <<"b", ":", "#", "f", "f", "F", "F", "f", "f">>

ArgBadHex == <<"f", "o", "o", ":", "z", "z", "0", "0", "0", "0">>

ColorArgLists == { <<>>, <<ArgAcc>>, <<ArgAcc, ArgWhite>>, <<ArgBadHex>> }

FilterLists == { <<>>, << <<"/", "*">> >> }

BaseUrls == { Undefined, Https \o <<"x", "/">>, <<"x">> }

BmMask == Bitmap(2, 1, <<0, 0, 0, 255, 255, 255, 255, 255>>)

BmArt == Bitmap(1, 2, <<0, 0, 0, 128, 0, 0, 255, 255>>)

\* What the server holds at the URL of a Reference; a fetch decodes it or fails.
RemoteImage(rel) == IF \E k \in 1..Len(rel) : rel[k] = "b" THEN BmArt ELSE BmMask

NoBitmap == Bitmap(0, 0, <<>>)

NoCall == [fn |-> "none", arg |-> <<>>, ret |-> <<>>, done |-> FALSE]

(***************************************************************************)
(* main().                                                                 *)
(***************************************************************************)
Init ==
    /\ pc = "start"
    /\ exitCode = -1
    /\ fatal = "none"
    /\ \E source \in CssSources, items \in DeclLists(MaxDecls) :
           src = [source |-> source, text |-> Flatten(items)]
    /\ opts \in [color : ColorArgLists, filter : FilterLists, baseUrl : BaseUrls]
    /\ css = Undefined
    /\ cssRequested = "none"
    /\ paths = <<>>
    /\ colors = <<>>
    /\ idx = 0
    /\ cidx = 0
    /\ img = NoBitmap
    /\ decoded = <<>>
    /\ fetches = <<>>
    /\ status = <<>>
    /\ attempts = <<>>
    /\ outputs = <<>>
    /\ call = NoCall

Goto(c) ==
    /\ pc' = c.pc
    /\ exitCode' = c.exitCode
    /\ fatal' = c.fatal

\* Line 140: const css = await fetchCss(cssSource).
FetchCss ==
    /\ pc = "start"
    /\ cssRequested' = IF IsHttpUrl(src.source) THEN "get" ELSE "read"
    /\ \E failed \in BOOLEAN :
        IF failed \/ IsBlank(src.text)
        THEN /\ Goto(TopLevelCatch("css", 0, 0))
             /\ css' = css
        ELSE /\ Goto([pc |-> "extract", exitCode |-> -1, fatal |-> "none"])
             /\ css' = src.text
    /\ UNCHANGED <<src, opts, paths, colors, idx, cidx, img, decoded, fetches, status,
                   attempts, outputs, call>>

\* Lines 145-160: findPngUrls, the filters, the early return.
Extract ==
    /\ pc = "extract"
    /\ paths' = ApplyFilter(FindPngUrls(css), opts.filter)
    /\ status' = [k \in 1..Len(paths') |-> "pending"]
    /\ decoded' = [k \in 1..Len(paths') |-> NoBitmap]
    /\ IF Len(paths') = 0
       THEN Goto([pc |-> "done", exitCode |-> 0, fatal |-> "none"])
       ELSE Goto([pc |-> "colors", exitCode |-> -1, fatal |-> "none"])
    /\ UNCHANGED <<src, opts, css, cssRequested, colors, idx, cidx, img, fetches,
                   attempts, outputs, call>>

\* Line 163: const colors = parseColors(opts.color).
ResolvePalette ==
    /\ pc = "colors"
    /\ IF ParseColors(opts.color).ok
       THEN /\ colors' = ParseColors(opts.color).entries
            /\ Goto([pc |-> "mkdir", exitCode |-> -1, fatal |-> "none"])
       ELSE /\ colors' = colors
            /\ Goto([pc |-> "exit", exitCode |-> 1, fatal |-> "color"])
    /\ UNCHANGED <<src, opts, css, cssRequested, paths, idx, cidx, img, decoded, fetches,
                   status, attempts, outputs, call>>

\* Line 167: await fs.promises.mkdir(opts.output, { recursive: true }).
MkdirOutput ==
    /\ pc = "mkdir"
    /\ \E failed \in BOOLEAN :
        IF failed
        THEN Goto(TopLevelCatch("mkdir", 0, 0)) /\ idx' = idx
        ELSE Goto([pc |-> "resolve", exitCode |-> -1, fatal |-> "none"]) /\ idx' = 1
    /\ UNCHANGED <<src, opts, css, cssRequested, paths, colors, cidx, img, decoded, fetches,
                   status, attempts, outputs, call>>

\* Lines 171-179: the URL of paths[idx].
ResolveUrl ==
    /\ pc = "resolve"
    /\ LET kind == ResolveKind(paths[idx], opts.baseUrl)
       IN  CASE kind = "skip" ->
                  /\ Goto(NextReference(paths, idx))
                  /\ idx' = idx + 1
                  /\ status' = [status EXCEPT ![idx] = "skipped"]
             [] kind = "throws" ->
                  /\ Goto(TopLevelCatch("resolve", idx, 0))
                  /\ UNCHANGED <<idx, status>>
             [] OTHER ->
                  /\ Goto([pc |-> "fetch", exitCode |-> -1, fatal |-> "none"])
                  /\ UNCHANGED <<idx, status>>
    /\ UNCHANGED <<src, opts, css, cssRequested, paths, colors, cidx, img, decoded, fetches,
                   attempts, outputs, call>>

\* Lines 182-190: img = await fetchImage(url), inside its try.
FetchImage ==
    /\ pc = "fetch"
    /\ fetches' = Append(fetches, paths[idx])
    /\ \/ /\ Goto(CatchFetchError(paths, idx))
          /\ idx' = CatchFetchError(paths, idx).idx
          /\ status' = [status EXCEPT ![idx] = "fetchfail"]
          /\ UNCHANGED <<img, decoded, cidx>>
       \/ /\ Goto([pc |-> "save", exitCode |-> -1, fatal |-> "none"])
          /\ img' = RemoteImage(paths[idx])
          /\ decoded' = [decoded EXCEPT ![idx] = RemoteImage(paths[idx])]
          /\ status' = [status EXCEPT ![idx] = "fetched"]
          /\ cidx' = 1
          /\ idx' = idx
    /\ UNCHANGED <<src, opts, css, cssRequested, paths, colors, attempts, outputs, call>>

\* Lines 193-202: one iteration of the palette loop, processAndSave inside its try.
\* mkdir or writeAsync may reject; the clone is scanned before either.
ProcessAndSave ==
    /\ pc = "save"
    /\ LET r == Recolor(img, colors[cidx].rgb)
       IN  /\ img' = r.source
           /\ \E outcome \in {"saved", "mkdir failed", "write failed"} :
                LET c == IF outcome = "saved"
                         THEN NextEntry(paths, colors, idx, cidx)
                         ELSE CatchSaveError(paths, colors, idx, cidx)
                IN  /\ Goto(c)
                    /\ idx' = c.idx
                    /\ cidx' = c.cidx
                    /\ attempts' = (<<idx, cidx>> :> (IF outcome = "saved" THEN "ok" ELSE "failed"))
                                     @@ attempts
                    /\ outputs' = IF outcome = "saved"
                                  THEN (<<idx, cidx>> :>
                                          [path |-> OutFile(OutputRoot, colors[cidx].name,
                                                            paths[idx]),
                                           image |-> r.variant]) @@ outputs
                                  ELSE outputs
                    /\ status' = IF c.pc = "exit" \/ c.idx = idx THEN status
                                 ELSE [status EXCEPT ![idx] = "expanded"]
    /\ UNCHANGED <<src, opts, css, cssRequested, paths, colors, decoded, fetches, call>>

Next ==
    \/ FetchCss
    \/ Extract
    \/ ResolvePalette
    \/ MkdirOutput
    \/ ResolveUrl
    \/ FetchImage
    \/ ProcessAndSave

Spec == Init /\ [][Next]_vars

Terminated == pc \in {"done", "exit"}

(***************************************************************************)
(* Single calls of the pure functions, on inputs drawn from bounded sets.  *)
(***************************************************************************)
Idle ==
    /\ pc = "call"
    /\ exitCode = -1
    /\ fatal = "none"
    /\ src = [source |-> <<>>, text |-> <<>>]
    /\ opts = [color |-> <<>>, filter |-> <<>>, baseUrl |-> Undefined]
    /\ css = Undefined
    /\ cssRequested = "none"
    /\ paths = <<>>
    /\ colors = <<>>
    /\ idx = 0
    /\ cidx = 0
    /\ img = NoBitmap
    /\ decoded = <<>>
    /\ fetches = <<>>
    /\ status = <<>>
    /\ attempts = <<>>
    /\ outputs = <<>>

Returned(fn) == call.fn = fn /\ call.done

\* --- the scan of processAndSave ---
SampleRGB == { <<r, g, b>> : r \in {0, 255}, g \in {0, 255}, b \in {0, 255} } \cup { <<128, 128, 128>> }

SampleAlpha == {0, 128, 255}

SamplePixels == { t \o <<a>> : t \in SampleRGB, a \in SampleAlpha }

TargetColors == { <<255, 255, 255>>, <<0, 0, 0>>, <<51, 102, 153>> }

Shapes(max) == { wh \in (1..max) \X (1..max) : wh[1] * wh[2] <= max }

SampleBitmaps(max) ==
    UNION { { Bitmap(wh[1], wh[2], Flatten(px)) : px \in [1..(wh[1] * wh[2]) -> SamplePixels] }
            : wh \in Shapes(max) }

InitRecolor ==
    /\ Idle
    /\ \E image \in SampleBitmaps(MaxPixels), rgb \in TargetColors :
           call = [fn |-> "processAndSave", arg |-> [image |-> image, rgb |-> rgb],
                   ret |-> <<>>, done |-> FALSE]

CallProcessAndSave ==
    /\ call.fn = "processAndSave"
    /\ ~call.done
    /\ call' = [call EXCEPT !.ret = Recolor(call.arg.image, call.arg.rgb), !.done = TRUE]
    /\ UNCHANGED pipeVars

NextRecolor == CallProcessAndSave

SpecRecolor == InitRecolor /\ [][NextRecolor]_vars

\* --- findPngUrls ---
BJpg == <<"b", ".", "j", "p", "g">>

AUpperPng == <<"A", ".", "P", "N", "G">>

ExtractChunks == { UrlOpen, APng, AUpperPng, BJpg, <<")">>, <<"'">>, <<"?">>, <<"#">>,
                   <<"/", "*">>, <<"*", "/">> }

ChunkLists(max) == UNION { [1..n -> ExtractChunks] : n \in 0..max }

InitExtract ==
    /\ Idle
    /\ \E cs \in ChunkLists(MaxChunks) :
           call = [fn |-> "findPngUrls", arg |-> Flatten(cs), ret |-> <<>>, done |-> FALSE]

CallFindPngUrls ==
    /\ call.fn = "findPngUrls"
    /\ ~call.done
    /\ call' = [call EXCEPT !.ret = FindPngUrls(call.arg), !.done = TRUE]
    /\ UNCHANGED pipeVars

NextExtract == CallFindPngUrls

SpecExtract == InitExtract /\ [][NextExtract]_vars

\* --- parseColors ---
SampleNames == { <<>>, <<"a">>, <<"b">> }

SampleRests == { <<>>, <<":">>,
                 <<":", "3", "3", "6", "6", "9", "9">>,
                 <<":", "#", "0", "0", "8", "0", "F", "f">>,
                 <<":", "z", "z", "0", "0", "0", "0">>,
                 <<":", "1", "2", "3", "4", "5">>,
                 <<":", "3", "3", "6", "6", "9", "9", ":", "f", "f">> }

SampleEntries == { n \o r : n \in SampleNames, r \in SampleRests }

SampleArgLists(max) == UNION { [1..n -> SampleEntries] : n \in 0..max }

InitColors ==
    /\ Idle
    /\ \E args \in SampleArgLists(MaxArgs) :
           call = [fn |-> "parseColors", arg |-> args, ret |-> <<>>, done |-> FALSE]

CallParseColors ==
    /\ call.fn = "parseColors"
    /\ ~call.done
    /\ call' = [call EXCEPT !.ret = ParseColors(call.arg), !.done = TRUE]
    /\ UNCHANGED pipeVars

NextColors == CallParseColors

SpecColors == InitColors /\ [][NextColors]_vars

(***************************************************************************)
(* Properties.                                                             *)
(***************************************************************************)
Refs == 1..Len(paths)

Entries == 1..Len(colors)

Attempted(i, j) == <<i, j>> \in DOMAIN attempts

Failed(i, j) == Attempted(i, j) /\ attempts[<<i, j>>] = "failed"

Written(i, j) == <<i, j>> \in DOMAIN outputs

Processed(i) == status[i] # "pending"

\* C1: in every run, a Reference whose fetch or decode failed has no variant
\* transformed or written, and every Reference after it in the extracted order has
\* still been taken up and handled by the time the run ends.
C1_FetchFailureIsolated ==
    Terminated =>
        \A i \in Refs :
            status[i] = "fetchfail" =>
                /\ \A j \in Entries : ~Attempted(i, j) /\ ~Written(i, j)
                /\ \A k \in Refs : k > i => Processed(k)

\* C2: a failure creating the directory for, or writing, one variant of a fetched
\* Reference leaves no file for that variant only: whatever the outcome of one
\* processAndSave, control goes on to the next palette entry of the same Reference
\* and, after the last one, to the next Reference (or to the normal end of the run);
\* once the loop has left the Reference every palette entry of it has been
\* attempted, and the failure never reaches the top-level handler.
C2_ContinuesAfterSave ==
    pc = "save" =>
        /\ <<idx, cidx>> \in DOMAIN attempts'
        /\ IF cidx < Len(colors)
           THEN pc' = "save" /\ idx' = idx /\ cidx' = cidx + 1 /\ exitCode' = -1
           ELSE IF idx < Len(paths)
           THEN pc' = "resolve" /\ idx' = idx + 1 /\ exitCode' = -1
           ELSE pc' = "done" /\ exitCode' = 0

C2_FailureKeptLocal ==
    \A i \in Refs : \A j \in Entries :
        Failed(i, j) =>
            /\ ~Written(i, j)
            /\ fatal # "save"
            /\ (idx > i \/ pc = "done") => \A j2 \in Entries : Attempted(i, j2)
            /\ pc = "done" => \A k \in Refs : k > i => Processed(k)
            /\ pc = "exit" => fatal = "resolve" /\ idx > i

C3_ExitsZero ==
    Terminated /\ css # Undefined /\ ParseColors(opts.color).ok /\ fatal # "mkdir"
        => exitCode = 0 /\ fatal = "none"

\* The specification as the claims read it: split on the first ":" only.
RECURSIVE FirstColon(_, _)
FirstColon(entry, p) ==
    IF p > Len(entry) THEN 0
    ELSE IF entry[p] = ":" THEN p
    ELSE FirstColon(entry, p + 1)

ClaimName(entry) ==
    IF FirstColon(entry, 1) = 0 THEN entry ELSE SubSeq(entry, 1, FirstColon(entry, 1) - 1)

ClaimColor(entry) ==
    IF FirstColon(entry, 1) = 0 THEN Undefined
    ELSE SubSeq(entry, FirstColon(entry, 1) + 1, Len(entry))

ClaimDigits(entry) ==
    IF Head(ClaimColor(entry)) = "#" THEN Tail(ClaimColor(entry)) ELSE ClaimColor(entry)

ClaimValid(entry) ==
    /\ ClaimName(entry) # <<>>
    /\ ClaimColor(entry) # <<>>
    /\ Len(ClaimDigits(entry)) = 6
    /\ \A k \in 1..6 : ClaimDigits(entry)[k] \in HexDigits

ClaimRgb(entry) ==
    LET h == ClaimDigits(entry)
    IN  << 16 * HexVal(h[1]) + HexVal(h[2]),
           16 * HexVal(h[3]) + HexVal(h[4]),
           16 * HexVal(h[5]) + HexVal(h[6]) >>

ClaimPalette(args) ==
    IF Len(args) = 0
    THEN { <<Green, <<0, 128, 0>>>>, <<Yellow, <<255, 255, 0>>>>,
           <<Red, <<255, 0, 0>>>>, <<Blue, <<0, 0, 255>>>> }
    ELSE { <<ClaimName(args[k]), ClaimRgb(args[k])>> :
             k \in { n \in 1..Len(args) :
                       \A m \in 1..Len(args) :
                           m > n => ClaimName(args[m]) # ClaimName(args[n]) } }

PaletteOf(entries) == { <<entries[k].name, entries[k].rgb>> : k \in 1..Len(entries) }

\* C4: in every run on a remote stylesheet with a malformed color specification
\* the run aborts with the configuration error, and before that no retrieval of
\* the stylesheet or of an image has been issued and nothing has been written.
C4_AbortBeforeNetwork ==
    (/\ IsHttpUrl(src.source)
     /\ \E k \in 1..Len(opts.color) : ~ClaimValid(opts.color[k])) =>
        /\ cssRequested = "none"
        /\ fetches = <<>>
        /\ DOMAIN outputs = {}
        /\ Terminated => exitCode = 1 /\ fatal = "color"

C8_SourceNotMutated ==
    /\ pc = "save" => img = decoded[idx]
    /\ \A i \in Refs : \A j \in Entries :
           Written(i, j) => outputs[<<i, j>>].image = Scan(decoded[i], colors[j].rgb)

C8_Witness ==
    /\ pc = "save"
    /\ cidx >= 3
    /\ Failed(idx, 1)
    /\ Written(idx, 2)
    /\ outputs[<<idx, 2>>].image # img

PixelAt(image, k) == SubSeq(image.data, 4 * k - 3, 4 * k)

PixelsOf(image) == 1..(image.width * image.height)

White == <<255, 255, 255>>

Black == <<0, 0, 0>>

RgbOf(p) == <<p[1], p[2], p[3]>>

\* The rule of the specification for one pixel p and a target triple.
RulePixel(p, rgb) ==
    IF p[4] # 0 /\ RgbOf(p) = White THEN <<p[1], p[2], p[3], 0>>
    ELSE IF p[4] # 0 /\ RgbOf(p) = Black THEN <<rgb[1], rgb[2], rgb[3], p[4]>>
    ELSE p

C7_NonOpaqueUnchanged ==
    Returned("processAndSave") =>
        \A k \in PixelsOf(call.arg.image) :
            LET p == PixelAt(call.arg.image, k)
            IN  ~(p[4] = 255 /\ RgbOf(p) \in {Black, White})
                    => PixelAt(call.ret.variant, k) = p

\* C7 as amended: a pixel that is not a pure black or pure white pixel of non-zero
\* alpha is bit-identical before and after the transform, for every target color.
C7_NonMaskUnchanged ==
    Returned("processAndSave") =>
        \A k \in PixelsOf(call.arg.image) :
            LET p == PixelAt(call.arg.image, k)
            IN  ~(p[4] # 0 /\ RgbOf(p) \in {Black, White})
                    => PixelAt(call.ret.variant, k) = p

C7_Witness ==
    /\ Returned("processAndSave")
    /\ call.arg.rgb = <<51, 102, 153>>
    /\ \E k \in PixelsOf(call.arg.image) :
           PixelAt(call.arg.image, k) = <<0, 0, 0, 0>> /\ PixelAt(call.ret.variant, k) = <<0, 0, 0, 0>>
    /\ \E k \in PixelsOf(call.arg.image) :
           PixelAt(call.arg.image, k) = <<128, 128, 128, 128>>
           /\ PixelAt(call.ret.variant, k) = <<128, 128, 128, 128>>

EndsWithI(s, lit) == Len(s) >= Len(lit) /\ StartsWithAtI(s, Len(s) - Len(lit) + 1, lit)

Contains(s, c) == \E k \in 1..Len(s) : s[k] = c

HasUrlOpen(s) == \E p \in 1..Len(s) : StartsWithAtI(s, p, UrlOpen)

\* C9: every Reference returned by extraction ends in ".png" (case-insensitively)
\* and carries no query string, fragment or surrounding quote; url(...) references
\* whose path is not a .png, and url(...) text inside block comments, contribute
\* no Reference.
C9_OnlyPngReferences ==
    Returned("findPngUrls") =>
        /\ \A k \in 1..Len(call.ret) :
               /\ EndsWithI(call.ret[k], DotPng)
               /\ ~Contains(call.ret[k], "?")
               /\ ~Contains(call.ret[k], "#")
               /\ ~IsQuote(call.ret[k][1])
               /\ ~IsQuote(call.ret[k][Len(call.ret[k])])
        /\ ~HasUrlOpen(RemoveComments(call.arg)) => call.ret = <<>>

\* C10: the resolver's result is the reference mapping: the four defaults for no
\* specification; otherwise exactly the named entries, last write winning, each
\* specification split on its first ":" and accepted only if its name is non-empty
\* and all that follows the first ":" is six hexadecimal digits after an optional
\* "#", read as R, G, B byte pairs; any other specification is fatal.
C10_PaletteIsReference ==
    Returned("parseColors") =>
        LET valid == \A k \in 1..Len(call.arg) : ClaimValid(call.arg[k])
        IN  /\ call.ret.ok = valid
            /\ valid =>
                 /\ PaletteOf(call.ret.entries) = ClaimPalette(call.arg)
                 /\ \A m, n \in 1..Len(call.ret.entries) :
                        call.ret.entries[m].name = call.ret.entries[n].name => m = n

====
